---- MODULE Spec2Model ----
(***************************************************************************)
(* password.py and thermal.py of thermal-key.                              *)
(*  - The parallel search engine: crack_generator, the worker function     *)
(*    check_password_batch it submits to a ProcessPoolExecutor, and the    *)
(*    tail of main that turns the engine's return value into an exit       *)
(*    status.                                                              *)
(*  - The candidate generators generate_mask_candidates,                   *)
(*    generate_bruteforce, generate_hybrid and apply_rules with their      *)
(*    keyspace counts, each run one next() at a time.                      *)
(*  - main's loading and validation of the target and the wordlist.        *)
(*  - The device commands do_fan, do_voltage and do_solo_allowed.          *)
(*  - One call of check_password_batch with the target as main loads it.   *)
(*  - thermal.py's fleet run: run_command_on_host per host on a thread     *)
(*    pool, with the process-wide sys.stdout and sys.stderr.               *)
(*  - crack_wordlist: the engine run on word_generator with its estimate.  *)
(* Each part has its own specification; the variables of the other parts   *)
(* stay idle in it.                                                        *)
(***************************************************************************)
EXTENDS Integers, Sequences, FiniteSets, TLC

\* ------------------------------------------------------------------ bounds
MaxCands == 3      \* longest candidate sequence a generator yields
MaxWorkers == 2    \* largest num_workers
MaxRuns == 2       \* invocations of the program compared with each other
MaxMaskLen == 4    \* longest mask string, in characters
MaxLen == 3        \* largest min_len and max_len of a brute-force run
MaxWords == 2      \* most words in a hybrid word list
MaxSuffix == 2     \* largest suffix_len of a hybrid run
MaxPad == 14       \* most characters a rule word is lengthened by

\* --------------------------------------------------------------- constants
None == "None"                     \* Python's None (no candidate is this string)
Passwords == {"", "a", "b"}        \* the candidate strings generators yield
Digests == {"d0", "d1"}            \* values of the truncated two-round SHA-256
Targets == {"d0"}                  \* the target auth values tried
BatchSizes == 1 .. MaxCands        \* batch_size values
WorkerCounts == 1 .. MaxWorkers    \* num_workers values
Totals == 0 .. MaxCands + 1        \* values of total: none, under, exact, over
Estimates == {MaxCands - 1}        \* the estimate the runs are started with

VARIABLES
    generator,      \* the whole finite output of the candidate generator
    pulled,         \* how many candidates the for loop has pulled so far
    digest,         \* compute_auth_fast(., dna_bytes) on the candidate strings
    target,         \* the target auth value
    batch_size,
    num_workers,
    total,          \* the keyspace estimate passed to crack_generator
    batch,          \* the dispatcher's working buffer
    pool,           \* work items handed to executor.submit, in submission order
    futures,        \* the dispatcher's list of futures (indices into pool)
    found,
    checked,
    shown,          \* the last progress line printed: checked and the percentage
    observed,       \* futures whose result() the dispatcher has read
    manager_thread, \* executor._executor_manager_thread is not None
    pc,             \* the dispatcher's position
    outcome,        \* which terminal path crack_generator took
    result,         \* main's variable result: the value crack_generator returned
    exit_status,    \* the process exit status, -1 while the process runs
    runs,           \* <<outcome, result, exit_status>> of finished invocations
    printed         \* the report lines written to stdout, in order

\* The candidate generators (generate_mask_candidates, generate_bruteforce,
\* generate_hybrid, apply_rules), run on their own.
VARIABLES
    g_args,         \* which generator runs and its arguments
    g_pos,          \* where the generator's loops stand
    g_n,            \* how many candidates it has yielded
    g_last,         \* the candidate yielded last
    g_seen,         \* apply_rules' set seen
    g_out,          \* apply_rules: the strings yielded so far, in order
    g_done          \* the generator has returned

\* The command line of password.py as main validates it.
VARIABLES
    m_args,         \* the parsed arguments and what they name
    m_target,       \* main's variable target
    m_log,          \* what main has printed and called, in order
    m_result,       \* main's variable result
    m_pc,           \* main's position
    m_exit          \* the exit status, -1 while main runs

\* One device-control command of thermal.py.
VARIABLES
    d_args,         \* the command and its argument
    d_sent,         \* the ascset parameters sent to the miner, in order
    d_err,          \* the messages print_err has printed
    d_pc

\* One non-status command of thermal.py run against several hosts.
VARIABLES
    f_args,         \* the hosts, --parallel and what the command does per host
    f_thread,       \* per host: the position of run_command_on_host, the
                    \* streams its redirections saved, the block it returned
    sys_stdout,     \* the stream sys.stdout names
    sys_stderr,     \* the stream sys.stderr names
    f_streams,      \* what has been written to each stream, in order
    f_results,      \* main's dict results
    f_main          \* main's position and how many blocks it has printed

engine_vars == <<generator, pulled, digest, target, batch_size, num_workers,
                 total, batch, pool, futures, found, checked, shown, observed,
                 manager_thread, pc, outcome, result, exit_status, runs,
                 printed>>
gen_vars == <<g_args, g_pos, g_n, g_last, g_seen, g_out, g_done>>
main_vars == <<m_args, m_target, m_log, m_result, m_pc, m_exit>>
dev_vars == <<d_args, d_sent, d_err, d_pc>>
fleet_vars == <<f_args, f_thread, sys_stdout, sys_stderr, f_streams,
                f_results, f_main>>
vars == <<engine_vars, gen_vars, main_vars, dev_vars, fleet_vars>>

\* What the engine leaves alone: the other programs are not running.
others == <<gen_vars, main_vars, dev_vars, fleet_vars>>

inputs == <<generator, digest, target, batch_size, num_workers, total>>

\* ------------------------------------------------------------ pure helpers
\* Python truthiness of an Optional[str]: None and "" are both falsy.
Truthy(x) == x # None /\ x # ""

\* One line of output: its fixed text, the candidate count it shows (-1 when
\* it shows none) and the password it shows (None when it shows none).
line(text) == [text |-> text, count |-> -1, password |-> None]

\* print_credentials(password, dna): the block headed CREDENTIALS, with the
\* password and the values derived from it.
print_credentials(password) ==
    [line("CREDENTIALS") EXCEPT !.password = password]

\* All sequences over S of length at most n.
SeqsUpTo(S, n) == UNION {[1 .. k -> S] : k \in 0 .. n}

compute_auth_fast(password) == digest[password]

\* Faulty variant: the comparison of line 91 inverted.
RECURSIVE check_password_batch_ne(_, _)
check_password_batch_ne(passwords, tgt) ==
    IF passwords = <<>> THEN None
    ELSE IF compute_auth_fast(Head(passwords)) # tgt THEN Head(passwords)
    ELSE check_password_batch_ne(Tail(passwords), tgt)

RECURSIVE check_password_batch(_, _)
check_password_batch(passwords, tgt) ==
    IF passwords = <<>> THEN None
    ELSE IF compute_auth_fast(Head(passwords)) = tgt THEN Head(passwords)
    ELSE check_password_batch(Tail(passwords), tgt)

\* Faulty variant: the work item holds the dispatcher's buffer itself, which
\* batch.clear() empties before a worker reads it.
Submit_aliased(b) ==
    Append(pool, [passwords |-> <<>>, state |-> "queued", result |-> None])

\* executor.submit(check_password_batch, (batch.copy(), target, dna_bytes))
Submit(b) == Append(pool, [passwords |-> b, state |-> "queued", result |-> None])

\* future.done()
Done(f) == pool[f].state = "done"

AllDone == \A i \in 1 .. Len(pool) : Done(i)
Running == {i \in 1 .. Len(pool) : pool[i].state = "running"}
Queued == {i \in 1 .. Len(pool) : pool[i].state = "queued"}

\* executor.shutdown(wait) can return: it joins the manager thread, which
\* ends once every submitted work item has run, only when wait is set and the
\* executor still holds the thread.
ShutdownReturns(wait) == (wait /\ manager_thread) => AllDone

\* ------------------------------------------------------------------- Init
\* A program that is not running.
GenIdle ==
    /\ g_args = [kind |-> "none"]
    /\ g_pos = <<>>
    /\ g_n = 0
    /\ g_last = <<>>
    /\ g_seen = {}
    /\ g_out = <<>>
    /\ g_done = FALSE

MainIdle ==
    /\ m_args = [mode |-> "none"]
    /\ m_target = <<>>
    /\ m_log = <<>>
    /\ m_result = None
    /\ m_pc = "idle"
    /\ m_exit = -1

DevIdle ==
    /\ d_args = [cmd |-> "none"]
    /\ d_sent = <<>>
    /\ d_err = <<>>
    /\ d_pc = "idle"

\* No fleet command runs; sys.stdout and sys.stderr are the process's own.
SysOut == [kind |-> "sys", fd |-> "out", host |-> 0]
SysErr == [kind |-> "sys", fd |-> "err", host |-> 0]
FleetIdle ==
    /\ f_args = [hosts |-> 0]
    /\ f_thread = <<>>
    /\ sys_stdout = SysOut
    /\ sys_stderr = SysErr
    /\ f_streams = <<>>
    /\ f_results = <<>>
    /\ f_main = [pc |-> "idle", k |-> 0]

\* The dispatcher is not running: no pool, no position.
EngineStopped ==
    /\ generator = <<>>
    /\ target = "d0"
    /\ batch_size = 1
    /\ num_workers = 1
    /\ total = 0
    /\ pulled = 0
    /\ pool = <<>>
    /\ futures = <<>>
    /\ found = None
    /\ checked = 0
    /\ shown = None
    /\ observed = {}
    /\ manager_thread = FALSE
    /\ pc = "idle"
    /\ outcome = "none"
    /\ result = None
    /\ exit_status = -1
    /\ runs = {}
    /\ printed = <<>>

EngineIdle ==
    EngineStopped /\ digest = [p \in Passwords |-> "d0"] /\ batch = <<>>

Fresh ==
    /\ generator \in SeqsUpTo(Passwords, MaxCands)
    /\ digest \in [Passwords -> Digests]
    /\ target \in Targets
    /\ batch_size \in BatchSizes
    /\ num_workers \in WorkerCounts
    /\ pulled = 0
    /\ batch = <<>>
    /\ pool = <<>>
    /\ futures = <<>>
    /\ found = None
    /\ checked = 0
    /\ shown = None
    /\ observed = {}
    /\ manager_thread = FALSE
    /\ pc = "for"
    /\ outcome = "none"
    /\ result = None
    /\ exit_status = -1
    /\ printed = <<>>

\* total defaults to 0 (line 277).
Init ==
    Fresh /\ total = 0 /\ runs = {} /\ GenIdle /\ MainIdle /\ DevIdle /\ FleetIdle

\* The callers pass their keyspace estimate as total.
InitTotal ==
    /\ Fresh /\ total \in Estimates /\ runs = {}
    /\ GenIdle /\ MainIdle /\ DevIdle /\ FleetIdle

\* ------------------------------------------------------- the dispatcher
TryBlock == {"for", "poll", "tail", "drain"}     \* lines 308-348, inside try
Unprotected == {"exit"}                          \* leaving the with, outside try

\* One iteration of "for password in generator" up to and including the
\* submit of a full batch (lines 308-313).
for_pull ==
    /\ pc = "for"
    /\ pulled < Len(generator)
    /\ pulled' = pulled + 1
    /\ LET filled == Append(batch, generator[pulled + 1]) IN
         IF Len(filled) >= batch_size
         THEN /\ pool' = Submit(filled)
              /\ futures' = Append(futures, Len(pool) + 1)
              /\ manager_thread' = TRUE
              /\ batch' = <<>>
              /\ pc' = "poll"
         ELSE /\ batch' = filled
              /\ pc' = "for"
              /\ UNCHANGED <<pool, futures, manager_thread>>
    /\ UNCHANGED <<others, inputs, printed, shown, found, checked, observed, outcome, result,
                   exit_status, runs>>

\* The generator raises StopIteration: the for loop ends.
for_exhausted ==
    /\ pc = "for"
    /\ pulled = Len(generator)
    /\ pc' = "tail"
    /\ UNCHANGED <<others, inputs, printed, shown, pulled, batch, pool, futures, found, checked,
                   observed, manager_thread, outcome, result, exit_status, runs>>

Min(S) == CHOOSE x \in S : \A y \in S : x <= y

\* Lines 330-335: what the progress line shows, the percentage (two decimals,
\* here in hundredths) only when total is positive.
progress(t, n) ==
    [checked |-> n,
     pct |-> IF t > 0 THEN (2 * 10000 * n + t) \div (2 * t) ELSE None]

\* Faulty variant: the loop stops once the estimated keyspace is covered.
poll_result_stops(t) ==
    LET done_futures == SelectSeq(futures, Done)
        hits == {k \in 1 .. Len(done_futures) :
                     Truthy(pool[done_futures[k]].result)}
    IN IF hits # {}
       THEN LET k == Min(hits)
                removed == {done_futures[j] : j \in 1 .. (k - 1)}
            IN [found |-> pool[done_futures[k]].result,
                futures |-> SelectSeq(futures, LAMBDA f : f \notin removed),
                observed |-> observed \cup removed \cup {done_futures[k]},
                checked |-> checked,
                shown |-> shown,
                pc |-> "tail"]
       ELSE [found |-> found,
             futures |-> SelectSeq(futures, LAMBDA f : ~Done(f)),
             observed |-> observed \cup
                            {done_futures[j] : j \in 1 .. Len(done_futures)},
             checked |-> checked + batch_size,
             shown |-> progress(t, checked + batch_size),
             pc |-> IF t > 0 /\ checked + batch_size >= t
                    THEN "tail" ELSE "for"]

\* Lines 316-336 as a function of the dispatcher's state and of total: the poll
\* of completed futures after a submit, then either break (found) or the
\* progress update.
poll_result(t) ==
    LET done_futures == SelectSeq(futures, Done)
        hits == {k \in 1 .. Len(done_futures) :
                     Truthy(pool[done_futures[k]].result)}
    IN IF hits # {}
       THEN LET k == Min(hits)
                removed == {done_futures[j] : j \in 1 .. (k - 1)}
            IN [found |-> pool[done_futures[k]].result,
                futures |-> SelectSeq(futures, LAMBDA f : f \notin removed),
                observed |-> observed \cup removed \cup {done_futures[k]},
                checked |-> checked,
                shown |-> shown,
                pc |-> "tail"]
       ELSE [found |-> found,
             futures |-> SelectSeq(futures, LAMBDA f : ~Done(f)),
             observed |-> observed \cup
                            {done_futures[j] : j \in 1 .. Len(done_futures)},
             checked |-> checked + batch_size,
             shown |-> progress(t, checked + batch_size),
             pc |-> "for"]

\* Faulty variant: the poll waits until every outstanding future is done.
poll_waits ==
    /\ pc = "poll"
    /\ \A j \in 1 .. Len(futures) : Done(futures[j])
    /\ found' = poll_result(total).found
    /\ futures' = poll_result(total).futures
    /\ observed' = poll_result(total).observed
    /\ checked' = poll_result(total).checked
    /\ shown' = poll_result(total).shown
    /\ pc' = poll_result(total).pc
    /\ UNCHANGED <<others, inputs, printed, pulled, batch, pool, manager_thread,
                   outcome, result, exit_status, runs>>

poll ==
    /\ pc = "poll"
    /\ found' = poll_result(total).found
    /\ futures' = poll_result(total).futures
    /\ observed' = poll_result(total).observed
    /\ checked' = poll_result(total).checked
    /\ shown' = poll_result(total).shown
    /\ pc' = poll_result(total).pc
    /\ UNCHANGED <<others, inputs, printed, pulled, batch, pool, manager_thread,
                   outcome, result, exit_status, runs>>

\* Faulty variant: the remaining partial batch is dropped.
tail_no_submit ==
    /\ pc = "tail"
    /\ pc' = "drain"
    /\ UNCHANGED <<others, inputs, printed, shown, pulled, batch, pool, futures, found, checked,
                   observed, manager_thread, outcome, result, exit_status, runs>>

\* Lines 339-340: submit the remaining partial batch.
tail ==
    /\ pc = "tail"
    /\ IF batch # <<>> /\ ~Truthy(found)
       THEN /\ pool' = Submit(batch)
            /\ futures' = Append(futures, Len(pool) + 1)
            /\ manager_thread' = TRUE
       ELSE UNCHANGED <<pool, futures, manager_thread>>
    /\ pc' = "drain"
    /\ UNCHANGED <<others, inputs, printed, shown, pulled, batch, found, checked, observed, outcome,
                   result, exit_status, runs>>

\* The futures as_completed(futures) has still to yield.
Remaining == {futures[j] : j \in 1 .. Len(futures)} \ observed

\* Faulty variant: the loop of lines 344-348 without its break.
drain_step_no_break ==
    /\ pc = "drain"
    /\ \E f \in Remaining :
         /\ Done(f)
         /\ observed' = observed \cup {f}
         /\ IF Truthy(pool[f].result)
            THEN found' = pool[f].result
            ELSE UNCHANGED found
    /\ UNCHANGED <<others, inputs, printed, shown, pulled, batch, pool, futures, checked, pc,
                   manager_thread, outcome, result, exit_status, runs>>

\* Lines 343-348: as_completed yields one finished future (any finished one:
\* it blocks while none is) and the loop body reads its result.
drain_step ==
    /\ pc = "drain"
    /\ ~Truthy(found)
    /\ \E f \in Remaining :
         /\ Done(f)
         /\ observed' = observed \cup {f}
         /\ IF Truthy(pool[f].result)
            THEN found' = pool[f].result /\ pc' = "exit"
            ELSE UNCHANGED <<found, pc>>
    /\ UNCHANGED <<others, inputs, printed, shown, pulled, batch, pool, futures, checked,
                   manager_thread, outcome, result, exit_status, runs>>

\* Faulty variant: the final wait looks only at futures that are already finished.
drain_end_no_wait ==
    /\ pc = "drain"
    /\ Truthy(found) \/ \A f \in Remaining : ~Done(f)
    /\ pc' = "exit"
    /\ UNCHANGED <<others, inputs, printed, shown, pulled, batch, pool, futures, found, checked,
                   observed, manager_thread, outcome, result, exit_status, runs>>

\* Line 343 with found set, or as_completed has yielded every future.
drain_end ==
    /\ pc = "drain"
    /\ Truthy(found) \/ Remaining = {}
    /\ pc' = "exit"
    /\ UNCHANGED <<others, inputs, printed, shown, pulled, batch, pool, futures, found, checked,
                   observed, manager_thread, outcome, result, exit_status, runs>>

\* Faulty variant: a shutdown(wait=False) that keeps the manager thread, so that the
\* shutdown(wait=True) of the with block joins it.
interrupt_keeps_thread ==
    /\ pc \in TryBlock
    /\ printed' = Append(printed, line("[!] Interrupted"))
    /\ pc' = "return_none"
    /\ UNCHANGED <<others, inputs, shown, pulled, batch, pool, futures, found, checked,
                   observed, manager_thread, outcome, result, exit_status, runs>>

\* KeyboardInterrupt raised in the main thread inside the try block, and the
\* handler of lines 350-352: print "Interrupted"; executor.shutdown(wait=False),
\* which drops the executor's reference to its manager thread. What is left
\* of the handler is "return None", which first leaves the with block.
interrupt ==
    /\ pc \in TryBlock
    /\ printed' = Append(printed, line("[!] Interrupted"))
    /\ ShutdownReturns(FALSE)
    /\ manager_thread' = FALSE
    /\ pc' = "return_none"
    /\ UNCHANGED <<others, inputs, shown, pulled, batch, pool, futures, found, checked,
                   observed, outcome, result, exit_status, runs>>

\* KeyboardInterrupt raised while Executor.__exit__ runs shutdown(wait=True),
\* after the try statement has ended: nothing catches it, it leaves
\* crack_generator and main.
interrupt_escapes ==
    /\ pc \in Unprotected
    /\ pc' = "raised"
    /\ outcome' = "Unhandled"
    /\ UNCHANGED <<others, inputs, printed, shown, pulled, batch, pool, futures, found, checked,
                   observed, manager_thread, result, exit_status, runs>>

\* Leaving the with block: Executor.__exit__ calls shutdown(wait=True), on
\* the normal path (then lines 355-356) and on "return None" of line 353.
with_exit ==
    /\ pc \in {"exit", "return_none"}
    /\ ShutdownReturns(TRUE)
    /\ manager_thread' = FALSE
    /\ IF pc = "exit"
       THEN pc' = "report" /\ UNCHANGED <<outcome, result>>
       ELSE pc' = "returned" /\ outcome' = "Cancelled" /\ result' = None
    /\ UNCHANGED <<others, inputs, printed, shown, pulled, batch, pool, futures, found, checked,
                   observed, exit_status, runs>>

\* Lines 358-366: report and return.
report ==
    /\ pc = "report"
    /\ IF Truthy(found)
       THEN /\ printed' = printed \o <<[line("[+] PASSWORD FOUND") EXCEPT
                                            !.password = found],
                                       line("[+] Time"), line("[+] Rate")>>
            /\ outcome' = "Found" /\ result' = found
       ELSE /\ printed' = printed \o <<[line("[-] Not found") EXCEPT
                                            !.count = checked],
                                       line("[-] Time")>>
            /\ outcome' = "Exhausted" /\ result' = None
    /\ pc' = "returned"
    /\ UNCHANGED <<others, inputs, shown, pulled, batch, pool, futures, found, checked,
                   observed, manager_thread, exit_status, runs>>

\* main, lines 592-601: exit status from the returned value. sys.exit ends
\* the process: its arguments and memory are gone, what stays is the status
\* (runs records what this invocation returned and how it exited).
main_exit ==
    /\ pc = "returned"
    /\ printed' = IF Truthy(result)
                  THEN Append(printed, print_credentials(result))
                  ELSE Append(printed, line("[*] Password not found. Try:"))
    /\ exit_status' = IF Truthy(result) THEN 0 ELSE 1
    /\ runs' = runs \cup {<<outcome, result, exit_status'>>}
    /\ pc' = "exited"
    /\ generator' = <<>>
    /\ digest' = [p \in Passwords |-> "d0"]
    /\ target' = "d0"
    /\ batch_size' = 1
    /\ num_workers' = 1
    /\ total' = 0
    /\ shown' = None
    /\ pulled' = 0
    /\ batch' = <<>>
    /\ pool' = <<>>
    /\ futures' = <<>>
    /\ found' = None
    /\ checked' = 0
    /\ observed' = {}
    /\ manager_thread' = FALSE
    /\ outcome' = "none"
    /\ result' = None
    /\ UNCHANGED others

\* ------------------------------------------------------------ the workers
\* A free worker process takes the oldest queued work item.
worker_start ==
    /\ exit_status = -1
    /\ Cardinality(Running) < num_workers
    /\ Queued # {}
    /\ pool' = [pool EXCEPT ![Min(Queued)].state = "running"]
    /\ UNCHANGED <<others, inputs, printed, shown, pulled, batch, futures, found, checked, observed,
                   manager_thread, pc, outcome, result, exit_status, runs>>

\* A worker finishes check_password_batch on its batch and the future is set.
worker_finish ==
    /\ exit_status = -1
    /\ \E i \in Running :
         pool' = [pool EXCEPT ![i].state = "done",
                              ![i].result = check_password_batch(
                                                pool[i].passwords, target)]
    /\ UNCHANGED <<others, inputs, printed, shown, pulled, batch, futures, found, checked, observed,
                   manager_thread, pc, outcome, result, exit_status, runs>>

Next ==
    \/ for_pull \/ for_exhausted \/ poll \/ tail
    \/ drain_step \/ drain_end \/ with_exit \/ report \/ main_exit
    \/ interrupt \/ interrupt_escapes
    \/ worker_start \/ worker_finish

Spec == Init /\ [][Next]_vars

\* The program is started again on any input; runs keeps what the finished
\* invocations returned.
Restart ==
    /\ pc = "exited"
    /\ Cardinality(runs) < MaxRuns
    /\ generator' \in SeqsUpTo(Passwords, MaxCands)
    /\ digest' \in [Passwords -> Digests]
    /\ target' \in Targets
    /\ batch_size' \in BatchSizes
    /\ num_workers' \in WorkerCounts
    /\ total' = 0
    /\ shown' = None
    /\ pulled' = 0
    /\ batch' = <<>>
    /\ pool' = <<>>
    /\ futures' = <<>>
    /\ found' = None
    /\ checked' = 0
    /\ observed' = {}
    /\ manager_thread' = FALSE
    /\ pc' = "for"
    /\ outcome' = "none"
    /\ result' = None
    /\ printed' = <<>>
    /\ UNCHANGED others
    /\ exit_status' = -1
    /\ UNCHANGED runs

NextRuns == Next \/ Restart

SpecRuns == Init /\ [][NextRuns]_vars

\* The engine started with a keyspace estimate.
SpecTotal == InitTotal /\ [][Next]_vars

\* The dispatcher runs whenever it is not blocked, and every submitted batch
\* is eventually taken by a worker and run to completion.
Dispatcher ==
    \/ for_pull \/ for_exhausted \/ poll \/ tail
    \/ drain_step \/ drain_end \/ with_exit \/ report \/ main_exit

FairSpec ==
    /\ Spec
    /\ WF_vars(Dispatcher)
    /\ WF_vars(worker_start)
    /\ WF_vars(worker_finish)

\* ------------------------------------------------------------- properties
Range(q) == {q[i] : i \in 1 .. Len(q)}
Returned == pc = "returned"
Ended == pc \in {"returned", "raised"}
ProcessEnds == pc' = "exited"      \* the step is main's sys.exit
Matching == {p \in Range(generator) : compute_auth_fast(p) = target}

\* C1: a password returned by crack_generator was a member of a submitted
\* batch and its oracle value equals the target.
C1_Soundness ==
    (Returned /\ result # None) =>
        /\ \E i \in 1 .. Len(pool) : result \in Range(pool[i].passwords)
        /\ compute_auth_fast(result) = target

C1_Witness ==
    /\ Returned /\ result # None
    /\ Len(pool) >= 2
    /\ \E i \in 1 .. Len(pool) : check_password_batch(pool[i].passwords, target) = None

\* C2: the not-found outcome is reached only with the generator exhausted,
\* every pulled candidate in a submitted batch (the trailing partial batch
\* included), and every submitted batch completed and its result read by the
\* dispatcher.
RECURSIVE Concat(_)
Concat(ps) == IF ps = <<>> THEN <<>> ELSE Head(ps).passwords \o Concat(Tail(ps))

C2_NoPrematureNotFound ==
    outcome = "Exhausted" =>
        /\ pulled = Len(generator)
        /\ Concat(pool) = generator
        /\ \A i \in 1 .. Len(pool) : Done(i) /\ i \in observed

C2_Witness ==
    /\ outcome = "Exhausted"
    /\ Len(pool) >= 2
    /\ Len(pool[Len(pool)].passwords) < batch_size

\* C3: when all candidates are non-empty and exactly one candidate matches,
\* a run that is not interrupted returns that candidate, whatever the batch
\* size and the completion order.
C3_Found ==
    (/\ "" \notin Range(generator)
     /\ Cardinality(Matching) = 1
     /\ outcome \in {"Found", "Exhausted"})
        => (outcome = "Found" /\ result \in Matching)

C3_Witness ==
    /\ "" \notin Range(generator)
    /\ Cardinality(Matching) = 1
    /\ outcome = "Found"
    /\ Len(generator) = MaxCands
    /\ generator[MaxCands] \in Matching
    /\ batch_size = 2

\* C4 (as stated): once the dispatcher has read the result of a batch that
\* reports a match, no batch is submitted and no candidate is pulled.
MatchObserved == \E f \in observed : pool[f].result # None

C4_NoSubmitAfterMatch ==
    [][(MatchObserved /\ ~ProcessEnds) =>
          (Len(pool') = Len(pool) /\ pulled' = pulled)]_vars

\* Once found holds a non-empty password the dispatcher submits and pulls
\* nothing more.
RecognizedStopsDispatch ==
    [][(Truthy(found) /\ ~ProcessEnds) =>
          (Len(pool') = Len(pool) /\ pulled' = pulled)]_vars

\* C5 (as stated): after the dispatcher has recognized a match, no batch
\* begins execution on a worker.
C5_NoStartAfterMatch ==
    [][(Truthy(found) /\ ~ProcessEnds) =>
          \A i \in 1 .. Len(pool) :
              pool[i].state = "queued" => pool'[i].state = "queued"]_vars

\* C6 (as stated): invocations that end in different outcomes return
\* different values to the caller of crack_generator (interrupt against
\* exhaustion) and different exit statuses of main.
C6_OutcomesDistinct ==
    \A r1, r2 \in runs :
        /\ r1[1] # r2[1] => r1[3] # r2[3]
        /\ (r1[1] = "Cancelled" /\ r2[1] = "Exhausted") => r1[2] # r2[2]

\* C7: after an interrupt in the dispatch loop no batch is submitted and no
\* candidate pulled, leaving the with block does not wait for the batches
\* in flight, and the run ends cancelled, not exhausted.
Interrupted == pc = "return_none" \/ outcome = "Cancelled"

C7_HardCancel ==
    [][(Interrupted /\ ~ProcessEnds) =>
          /\ Len(pool') = Len(pool) /\ pulled' = pulled
          /\ pc = "return_none" => ShutdownReturns(TRUE)
          /\ outcome' \in {"none", "Cancelled"}
          /\ pc' = "returned" => outcome' = "Cancelled"]_vars

C7_Witness ==
    /\ pc = "returned" /\ outcome = "Cancelled"
    /\ Len(pool) = 1
    /\ pool[1].state = "running"
    /\ pulled < Len(generator)

\* C8: found goes from None to a password at most once and never changes
\* afterwards; it is assigned by the dispatcher, in the poll or in the drain,
\* from the result of a finished future; a worker step changes only its
\* work item.
C8_WriteOnce ==
    [][ProcessEnds \/
       /\ found # None => found' = found
       /\ found' # found =>
            /\ pc \in {"poll", "drain"}
            /\ \E f \in 1 .. Len(pool) : Done(f) /\ pool[f].result = found'
            /\ pool' = pool
       /\ (pool' # pool /\ Len(pool') = Len(pool)) =>
            UNCHANGED <<found, checked, futures, batch, pulled, observed, pc>>]_vars

C8_Witness ==
    /\ found # None
    /\ Cardinality({i \in 1 .. Len(pool) : Done(i) /\ pool[i].result # None}) >= 2

\* C9 (as stated): crack_generator ends in one of Found, Exhausted, Cancelled.
C9_EndsInOutcome == Ended => outcome \in {"Found", "Exhausted", "Cancelled"}

\* Under fairness every run ends: it returns or raises.
Termination == <>(pc \in {"exited", "raised"})

\* C10 (as stated): on the not-found outcome the reported counter equals the
\* number of candidates pulled from the generator.
C10_CheckedIsPulled == outcome = "Exhausted" => checked = pulled

\* ---------------------------------------------------------------- C11
\* C11: the keyspace estimate does not influence the search.  total is read
\* only by the poll block (lines 316-336); every poll step the dispatcher
\* takes leaves found, futures, the futures read, checked and the position
\* exactly as the same block does for every other value of total (0, an
\* under-estimate, an over-estimate), so with the same generator output and
\* the same completion order the batches submitted, the outcome and the
\* returned password are the same.
C11_TotalIgnored ==
    [][poll => \A t \in Totals :
                  LET r == poll_result(t)
                  IN /\ found' = r.found
                     /\ futures' = r.futures
                     /\ observed' = r.observed
                     /\ checked' = r.checked
                     /\ pc' = r.pc]_vars

\* A run that was given an under-estimate went on past it and ended.
C11_Witness ==
    /\ total > 0
    /\ checked > total
    /\ shown.pct > 10000
    /\ pc = "returned"
    /\ outcome = "Found"

\* ---------------------------------------------------------------- C20
\* C20: no zombie workers on either cancellation path.  At the moment
\* crack_generator returns after a recognized match or after a user
\* interrupt, no submitted batch is still queued or running in the pool.
C20_NoZombies ==
    (pc = "returned" /\ outcome \in {"Found", "Cancelled"}) => AllDone

\* The match path alone: leaving the with block joins the pool.
MatchLeavesNoZombies ==
    (pc = "returned" /\ outcome = "Found") => AllDone

\* ======================================================================
\* The candidate generators.  A string is the sequence of its characters.
\* ======================================================================
CHARSET_LOWER ==
    <<"a", "b", "c", "d", "e", "f", "g", "h", "i", "j", "k", "l", "m", "n",
    "o", "p", "q", "r", "s", "t", "u", "v", "w", "x", "y", "z">>
CHARSET_UPPER ==
    <<"A", "B", "C", "D", "E", "F", "G", "H", "I", "J", "K", "L", "M", "N",
    "O", "P", "Q", "R", "S", "T", "U", "V", "W", "X", "Y", "Z">>
CHARSET_DIGITS ==
    <<"0", "1", "2", "3", "4", "5", "6", "7", "8", "9">>
CHARSET_SPECIAL ==
    <<"!", "@", "#", "$", "%", "^", "&", "*", "(", ")", "-", "_", "=", "+",
    "[", "]", "{", "}", "|", ";", ":", ",", ".", "<", ">", "?">>
CHARSET_SPECIAL_COMMON ==
    <<"!", "@", "#", "$", "%", "&", "*", "_", "-", "+">>
CHARSET_ALNUM == CHARSET_LOWER \o CHARSET_UPPER \o CHARSET_DIGITS
CHARSET_ALL == CHARSET_ALNUM \o CHARSET_SPECIAL

\* MASK_CHARS, keyed by the character that follows the '?'.
MASK_CHARS ==
    [l |-> CHARSET_LOWER, u |-> CHARSET_UPPER, d |-> CHARSET_DIGITS,
     s |-> CHARSET_SPECIAL, a |-> CHARSET_ALL, w |-> CHARSET_ALNUM]

\* The masks tried: every string of up to MaxMaskLen characters over '?',
\* two class letters and a letter that names no class, and masks with the
\* other classes.
MaskAlphabet == {"?", "l", "d", "x"}
ExampleMask == <<"?", "d", "?", "d", "?", "l">>
ClassMasks == {<<"?", "u">>, <<"?", "s">>, <<"?", "a">>, <<"?", "w">>,
               <<"?", "a", "?", "s">>}
Masks == SeqsUpTo(MaskAlphabet, MaxMaskLen) \cup {ExampleMask} \cup ClassMasks

\* The charsets of brute-force runs: strings of distinct characters.
BruteChars == {"a", "b", "c"}
IsDistinct(s) == \A i, j \in 1 .. Len(s) : s[i] = s[j] => i = j
Charsets == {s \in SeqsUpTo(BruteChars, Cardinality(BruteChars)) : IsDistinct(s)}
Lengths == 0 .. MaxLen

Max(S) == CHOOSE x \in S : \A y \in S : y <= x

\* Python's b ** e on naturals.
RECURSIVE Pow(_, _)
Pow(b, e) == IF e = 0 THEN 1 ELSE b * Pow(b, e - 1)

\* Lines 158-167: the mask is cut into one charset per position.
RECURSIVE charsets(_)
charsets(mask) ==
    IF mask = <<>> THEN <<>>
    ELSE IF mask[1] = "?" /\ Len(mask) > 1 /\ mask[2] \in DOMAIN MASK_CHARS
         THEN <<MASK_CHARS[mask[2]]>> \o charsets(SubSeq(mask, 3, Len(mask)))
         ELSE <<(<<mask[1]>>)>> \o charsets(Tail(mask))

\* itertools.product(*pools): the first tuple of indices, none when a pool
\* is empty; the result is <<>> or a one-element sequence.
product_first(pools) ==
    IF \E j \in 1 .. Len(pools) : pools[j] = <<>>
    THEN <<>>
    ELSE <<[j \in 1 .. Len(pools) |-> 1]>>

\* Faulty variant: the leftmost position varies fastest.
product_next_leftmost(pools, idx) ==
    LET I == {j \in 1 .. Len(pools) : idx[j] < Len(pools[j])}
    IN IF I = {} THEN <<>>
       ELSE LET i == Min(I)
            IN <<[j \in 1 .. Len(pools) |->
                    IF j > i THEN idx[j] ELSE IF j = i THEN idx[j] + 1 ELSE 1]>>

\* itertools.product: the tuple after idx, the rightmost position that can
\* advance does and the positions to its right start over.
product_next(pools, idx) ==
    LET I == {j \in 1 .. Len(pools) : idx[j] < Len(pools[j])}
    IN IF I = {} THEN <<>>
       ELSE LET i == Max(I)
            IN <<[j \in 1 .. Len(pools) |->
                    IF j < i THEN idx[j] ELSE IF j = i THEN idx[j] + 1 ELSE 1]>>

\* ''.join(combo)
join(pools, idx) == [j \in 1 .. Len(pools) |-> pools[j][idx[j]]]

\* product(charset, repeat=length)
Repeat(charset, length) == [j \in 1 .. length |-> charset]

\* Faulty variant: range(min_len, max_len) in place of max_len + 1.
RECURSIVE count_combinations_excl(_, _, _)
count_combinations_excl(charset, max_len, min_len) ==
    IF min_len >= max_len THEN 0
    ELSE Pow(Len(charset), min_len)
           + count_combinations_excl(charset, max_len, min_len + 1)

\* Lines 193-198.
RECURSIVE count_combinations(_, _, _)
count_combinations(charset, max_len, min_len) ==
    IF min_len > max_len THEN 0
    ELSE Pow(Len(charset), min_len)
           + count_combinations(charset, max_len, min_len + 1)

\* Lines 201-213.
RECURSIVE count_mask_combinations(_)
count_mask_combinations(mask) ==
    IF mask = <<>> THEN 1
    ELSE IF mask[1] = "?" /\ Len(mask) > 1 /\ mask[2] \in DOMAIN MASK_CHARS
         THEN Len(MASK_CHARS[mask[2]])
                * count_mask_combinations(SubSeq(mask, 3, Len(mask)))
         ELSE count_mask_combinations(Tail(mask))

\* A generator before its first next().
NotStarted == [started |-> FALSE, length |-> 0, idx |-> <<>>]

InitKeyspace ==
    /\ \/ \E mask \in Masks : g_args = [kind |-> "mask", mask |-> mask]
       \/ \E charset \in Charsets, min_len \in Lengths, max_len \in Lengths :
            g_args = [kind |-> "bruteforce", charset |-> charset,
                      min_len |-> min_len, max_len |-> max_len]
    /\ g_pos = NotStarted
    /\ g_n = 0
    /\ g_last = <<>>
    /\ g_seen = {}
    /\ g_out = <<>>
    /\ g_done = FALSE
    /\ EngineIdle /\ MainIdle /\ DevIdle /\ FleetIdle

\* generate_mask_candidates, lines 169-170: one next() of the generator.
mask_next ==
    /\ g_args.kind = "mask"
    /\ ~g_done
    /\ LET pools == charsets(g_args.mask)
           nxt == IF g_pos.started THEN product_next(pools, g_pos.idx)
                  ELSE product_first(pools)
       IN IF nxt = <<>>
          THEN /\ g_done' = TRUE
               /\ g_pos' = [g_pos EXCEPT !.started = TRUE]
               /\ UNCHANGED <<g_n, g_last>>
          ELSE /\ g_pos' = [started |-> TRUE, length |-> 0, idx |-> nxt[1]]
               /\ g_n' = g_n + 1
               /\ g_last' = join(pools, nxt[1])
               /\ UNCHANGED g_done
    /\ UNCHANGED <<g_args, g_seen, g_out, engine_vars, main_vars, dev_vars, fleet_vars>>

\* Lines 188-189: the first tuple of the first length, from length on, that
\* has one.
RECURSIVE bruteforce_from(_, _, _)
bruteforce_from(charset, length, max_len) ==
    IF length > max_len THEN <<>>
    ELSE LET first == product_first(Repeat(charset, length))
         IN IF first # <<>>
            THEN <<[started |-> TRUE, length |-> length, idx |-> first[1]]>>
            ELSE bruteforce_from(charset, length + 1, max_len)

\* generate_bruteforce, lines 188-190: one next() of the generator.
bruteforce_next ==
    /\ g_args.kind = "bruteforce"
    /\ ~g_done
    /\ LET charset == g_args.charset
           same == product_next(Repeat(charset, g_pos.length), g_pos.idx)
           nxt == IF ~g_pos.started
                  THEN bruteforce_from(charset, g_args.min_len, g_args.max_len)
                  ELSE IF same # <<>>
                  THEN <<[g_pos EXCEPT !.idx = same[1]]>>
                  ELSE bruteforce_from(charset, g_pos.length + 1,
                                       g_args.max_len)
       IN IF nxt = <<>>
          THEN /\ g_done' = TRUE
               /\ g_pos' = [g_pos EXCEPT !.started = TRUE]
               /\ UNCHANGED <<g_n, g_last>>
          ELSE /\ g_pos' = nxt[1]
               /\ g_n' = g_n + 1
               /\ g_last' = join(Repeat(charset, nxt[1].length), nxt[1].idx)
               /\ UNCHANGED g_done
    /\ UNCHANGED <<g_args, g_seen, g_out, engine_vars, main_vars, dev_vars, fleet_vars>>

NextKeyspace == mask_next \/ bruteforce_next

SpecKeyspace == InitKeyspace /\ [][NextKeyspace]_vars

\* ---------------------------------------------------------------- C12
\* The place of a character in a charset, and the place of a candidate among
\* the tuples of a product counted from 0: both are functions of the string.
IndexOf(c, charset) == CHOOSE i \in 1 .. Len(charset) : charset[i] = c

RECURSIVE Position(_, _, _)
Position(cand, pools, j) ==
    IF j = 0 THEN 0
    ELSE Position(cand, pools, j - 1) * Len(pools[j])
           + IndexOf(cand[j], pools[j]) - 1

\* How many strings over n characters are shorter than len and at least
\* min_len long.
RECURSIVE Shorter(_, _, _)
Shorter(n, min_len, len) ==
    IF min_len >= len THEN 0 ELSE Pow(n, min_len) + Shorter(n, min_len + 1, len)

\* C12: keyspace exactness for the exact modes.  Once the generator has
\* returned, the number of candidates it yielded is count_mask_combinations
\* (mask), respectively count_combinations(charset, max_len, min_len); and no
\* candidate is yielded twice: the n-th candidate yielded is the string whose
\* place in the enumeration, computed from the string alone, is n.
C12_KeyspaceExact ==
    /\ g_args.kind = "mask" =>
         /\ g_done => g_n = count_mask_combinations(g_args.mask)
         /\ g_n > 0 =>
              /\ Len(g_last) = Len(charsets(g_args.mask))
              /\ Position(g_last, charsets(g_args.mask), Len(g_last)) + 1 = g_n
    /\ g_args.kind = "bruteforce" =>
         /\ g_done => g_n = count_combinations(g_args.charset, g_args.max_len,
                                               g_args.min_len)
         /\ g_n > 0 =>
              Shorter(Len(g_args.charset), g_args.min_len, Len(g_last))
                + Position(g_last, Repeat(g_args.charset, Len(g_last)),
                           Len(g_last)) + 1 = g_n

\* A mask with an unrecognized '?x' pair followed by a class has been
\* enumerated to its end: ten candidates, the last one '?x9'.
C12_Witness ==
    /\ g_args.kind = "mask"
    /\ g_args.mask = <<"?", "x", "?", "d">>
    /\ g_done
    /\ g_n = 10
    /\ g_last = <<"?", "x", "9">>

\* ---------------------------------------------------------------- C13
First(cand, pools) == \A j \in 1 .. Len(pools) : cand[j] = pools[j][1]
Last(cand, pools) == \A j \in 1 .. Len(pools) : cand[j] = pools[j][Len(pools[j])]

\* next follows prev in odometer order: one position moves to the next
\* character of its class, the positions left of it stay and the positions
\* right of it go from the last character of their class back to the first.
OdometerStep(prev, next, pools) ==
    /\ Len(prev) = Len(pools)
    /\ Len(next) = Len(pools)
    /\ \E i \in 1 .. Len(pools) :
         /\ \A j \in 1 .. (i - 1) : next[j] = prev[j]
         /\ IndexOf(next[i], pools[i]) = IndexOf(prev[i], pools[i]) + 1
         /\ \A j \in (i + 1) .. Len(pools) :
              /\ prev[j] = pools[j][Len(pools[j])]
              /\ next[j] = pools[j][1]

\* C13: enumeration order.  generate_mask_candidates starts with the first
\* character of every class and each next candidate follows the previous one
\* in odometer order, the rightmost position varying fastest ('?d?d?l' starts
\* 00a, 00b, 00c).  generate_bruteforce starts at length min_len, follows the
\* same order within a length and moves to the next length only from the last
\* string of a length to the first string of the length above.
C13_OdometerOrder ==
    [][g_n' = g_n + 1 =>
        /\ g_args.kind = "mask" =>
             LET pools == charsets(g_args.mask)
             IN /\ IF g_n = 0 THEN First(g_last', pools)
                   ELSE OdometerStep(g_last, g_last', pools)
                /\ g_args.mask = ExampleMask =>
                     /\ g_n' = 1 => g_last' = <<"0", "0", "a">>
                     /\ g_n' = 2 => g_last' = <<"0", "0", "b">>
                     /\ g_n' = 3 => g_last' = <<"0", "0", "c">>
        /\ g_args.kind = "bruteforce" =>
             LET pools == Repeat(g_args.charset, Len(g_last'))
             IN IF g_n = 0
                THEN Len(g_last') = g_args.min_len /\ First(g_last', pools)
                ELSE \/ OdometerStep(g_last, g_last', pools)
                     \/ /\ Len(g_last') = Len(g_last) + 1
                        /\ Last(g_last, Repeat(g_args.charset, Len(g_last)))
                        /\ First(g_last', pools)]_vars

\* The example mask has carried into its second position.
C13_Witness ==
    /\ g_args.kind = "mask"
    /\ g_args.mask = ExampleMask
    /\ g_n = 27
    /\ g_last = <<"0", "1", "a">>

\* ------------------------------------------------------- generate_hybrid
\* The length limit of a password, the 16 of lines 105 and 180.
PasswordLimit == 16

\* Line 175.
suffix_chars == CHARSET_DIGITS \o CHARSET_SPECIAL_COMMON

\* The lines of a word list, stripped and non-empty: words that leave room
\* for every suffix, for some, for none, and one over the limit.
WordLens == {1, PasswordLimit - 1, PasswordLimit, PasswordLimit + 1}
Word(n) == [j \in 1 .. n |-> "w"]
WordLists == SeqsUpTo({Word(n) : n \in WordLens}, MaxWords)
SuffixLens == 0 .. MaxSuffix

\* crack_hybrid, lines 430-432: the total passed to the engine.
RECURSIVE suffix_combos(_, _)
suffix_combos(K, suffix_len) ==
    IF suffix_len < 0 THEN 0
    ELSE Pow(K, suffix_len) + suffix_combos(K, suffix_len - 1)

hybrid_total(words, suffix_len) ==
    Len(words) * suffix_combos(Len(suffix_chars), suffix_len)

InitHybrid ==
    /\ \E words \in WordLists, suffix_len \in SuffixLens :
         g_args = [kind |-> "hybrid", words |-> words, suffix_len |-> suffix_len]
    /\ g_pos = [started |-> FALSE, word |-> 0, length |-> 0, idx |-> <<>>]
    /\ g_n = 0
    /\ g_last = <<>>
    /\ g_seen = {}
    /\ g_out = <<>>
    /\ g_done = FALSE
    /\ EngineIdle /\ MainIdle /\ DevIdle /\ FleetIdle

\* Lines 177-179: where the loops stand next, from suffix length `length` of
\* word number w on; length 0 is the bare word of line 178.
hybrid_from(w, length) ==
    IF w > Len(g_args.words) THEN <<>>
    ELSE IF length = 0
    THEN <<[started |-> TRUE, word |-> w, length |-> 0, idx |-> <<>>]>>
    ELSE IF length <= g_args.suffix_len
    THEN <<[started |-> TRUE, word |-> w, length |-> length,
            idx |-> product_first(Repeat(suffix_chars, length))[1]]>>
    ELSE IF w < Len(g_args.words)
    THEN <<[started |-> TRUE, word |-> w + 1, length |-> 0, idx |-> <<>>]>>
    ELSE <<>>

\* generate_hybrid, lines 177-183: the loops advance by one element; the bare
\* word is yielded as it is, a suffixed candidate only when it fits.
hybrid_next ==
    /\ g_args.kind = "hybrid"
    /\ ~g_done
    /\ LET same == product_next(Repeat(suffix_chars, g_pos.length), g_pos.idx)
           nxt == IF ~g_pos.started THEN hybrid_from(1, 0)
                  ELSE IF g_pos.length > 0 /\ same # <<>>
                  THEN <<[g_pos EXCEPT !.idx = same[1]]>>
                  ELSE hybrid_from(g_pos.word, g_pos.length + 1)
       IN IF nxt = <<>>
          THEN /\ g_done' = TRUE
               /\ g_pos' = [g_pos EXCEPT !.started = TRUE]
               /\ UNCHANGED <<g_n, g_last>>
          ELSE LET word == g_args.words[nxt[1].word]
                   candidate == word \o join(Repeat(suffix_chars, nxt[1].length),
                                             nxt[1].idx)
               IN /\ g_pos' = nxt[1]
                  /\ IF nxt[1].length = 0 \/ Len(candidate) <= PasswordLimit
                     THEN g_n' = g_n + 1 /\ g_last' = candidate
                     ELSE UNCHANGED <<g_n, g_last>>
                  /\ UNCHANGED g_done
    /\ UNCHANGED <<g_args, g_seen, g_out, engine_vars, main_vars, dev_vars, fleet_vars>>

NextHybrid == hybrid_next

SpecHybrid == InitHybrid /\ [][NextHybrid]_vars

\* ---------------------------------------------------------------- C14
\* C14: the hybrid keyspace is exact.  When generate_hybrid has returned, the
\* number of candidates it yielded is the total crack_hybrid passes to the
\* engine, word_count * (1 + K + ... + K^N).
C14_HybridExact ==
    (g_args.kind = "hybrid" /\ g_done) =>
        g_n = hybrid_total(g_args.words, g_args.suffix_len)

\* For words that leave room for every suffix the total is exact.
HybridExactWhenRoom ==
    (/\ g_args.kind = "hybrid"
     /\ g_done
     /\ \A j \in 1 .. Len(g_args.words) :
          Len(g_args.words[j]) + g_args.suffix_len <= PasswordLimit) =>
        g_n = hybrid_total(g_args.words, g_args.suffix_len)

\* ---------------------------------------------------------------- C15
\* C15: candidate length bound.  Every candidate a generator yields, the
\* bare word of generate_hybrid included, has at most 16 characters.
C15_LengthBound == g_n > 0 => Len(g_last) <= PasswordLimit

\* ----------------------------------------------------------- apply_rules
\* Lines 50-55.
COMMON_SUFFIXES ==
    <<<<>>, <<"!">>, <<"1">>, <<"1", "2">>, <<"1", "2", "3">>, <<"1", "2", "3", "4">>, <<"1", "2", "3", "4", "5">>,
      <<"@">>, <<"#">>, <<"$">>, <<"!", "@", "#">>, <<"!", "!">>,
      <<"0", "1">>, <<"9", "9">>, <<"0", "0">>, <<"0", "0", "7">>, <<"6", "9">>, <<"6", "6", "6">>, <<"7", "7", "7">>,
      <<"2", "0", "2", "0">>, <<"2", "0", "2", "1">>, <<"2", "0", "2", "2">>,
      <<"2", "0", "2", "3">>, <<"2", "0", "2", "4">>, <<"2", "0", "2", "5">>, <<"2", "0", "2", "6">>>>

\* Lines 58-66, in the order of the dict.
LEET_MAP ==
    <<[char |-> "a", subs |-> <<"a", "4", "@">>],
      [char |-> "e", subs |-> <<"e", "3">>],
      [char |-> "i", subs |-> <<"i", "1", "!">>],
      [char |-> "o", subs |-> <<"o", "0">>],
      [char |-> "s", subs |-> <<"s", "5", "$">>],
      [char |-> "t", subs |-> <<"t", "7">>],
      [char |-> "l", subs |-> <<"l", "1">>]>>

\* The str methods apply_rules calls, on ASCII strings.
lower_table ==
    [c \in {CHARSET_UPPER[i] : i \in 1 .. Len(CHARSET_UPPER)} |->
        CHARSET_LOWER[CHOOSE i \in 1 .. Len(CHARSET_UPPER) : CHARSET_UPPER[i] = c]]
upper_table ==
    [c \in {CHARSET_LOWER[i] : i \in 1 .. Len(CHARSET_LOWER)} |->
        CHARSET_UPPER[CHOOSE i \in 1 .. Len(CHARSET_LOWER) : CHARSET_LOWER[i] = c]]

lower_char(c) == IF c \in DOMAIN lower_table THEN lower_table[c] ELSE c
upper_char(c) == IF c \in DOMAIN upper_table THEN upper_table[c] ELSE c

lower(w) == [j \in 1 .. Len(w) |-> lower_char(w[j])]
upper(w) == [j \in 1 .. Len(w) |-> upper_char(w[j])]
capitalize(w) ==
    IF w = <<>> THEN <<>> ELSE <<upper_char(w[1])>> \o lower(Tail(w))

\* Faulty variant: the string reversed.
swapcase_reversed(w) == [j \in 1 .. Len(w) |-> w[Len(w) + 1 - j]]

swapcase(w) ==
    [j \in 1 .. Len(w) |->
        IF lower_char(w[j]) # w[j] THEN lower_char(w[j]) ELSE upper_char(w[j])]

\* Faulty variant: only the first occurrence is replaced.
replace_first(w, char, sub) ==
    [j \in 1 .. Len(w) |->
        IF w[j] = char /\ (\A i \in 1 .. j - 1 : w[i] # char) THEN sub ELSE w[j]]

\* str.replace(char, sub) for one-character strings.
replace(w, char, sub) == [j \in 1 .. Len(w) |-> IF w[j] = char THEN sub ELSE w[j]]

\* Lines 119-124: one variant per LEET_MAP entry whose character occurs.
RECURSIVE leet_singles(_, _)
leet_singles(leet, k) ==
    IF k > Len(LEET_MAP) THEN <<>>
    ELSE (IF (\E j \in 1 .. Len(leet) : leet[j] = LEET_MAP[k].char)
             /\ Len(LEET_MAP[k].subs) > 1
          THEN <<replace(leet, LEET_MAP[k].char, LEET_MAP[k].subs[2])>>
          ELSE <<>>) \o leet_singles(leet, k + 1)

\* Lines 126-132: every substitution applied in turn.
RECURSIVE full_leet(_, _)
full_leet(w, k) ==
    IF k > Len(LEET_MAP) THEN w
    ELSE full_leet(IF Len(LEET_MAP[k].subs) > 1
                   THEN replace(w, LEET_MAP[k].char, LEET_MAP[k].subs[2])
                   ELSE w, k + 1)

\* Lines 134-138: base + suffix for every suffix.
suffixed(base) == [k \in 1 .. Len(COMMON_SUFFIXES) |-> base \o COMMON_SUFFIXES[k]]

\* Lines 110-138: the strings apply_rules passes to emit, in order.
variants(word) ==
    <<word>>
      \o <<lower(word), upper(word), capitalize(word), swapcase(word)>>
      \o leet_singles(lower(word), 1)
      \o <<full_leet(lower(word), 1)>>
      \o suffixed(lower(word))
      \o suffixed(capitalize(word))

\* Faulty variant: emit without the length test.
emit_any_length(w) == w \notin g_seen

\* Lines 104-108: emit accepts w when it is new and fits.
emit(w) == w \notin g_seen /\ Len(w) <= PasswordLimit

\* The words rules are applied to: a stem lengthened by 0 to MaxPad characters.
Pass == <<"P", "a", "s", "s">>
Stems == {<<>>, Pass, <<"p", "a", "s", "s">>, <<"L", "e", "e", "t">>,
          <<"1", "2">>, <<"t", "E">>, <<"o", "i", "l">>}
RuleWords == {stem \o Word(n) : stem \in Stems, n \in 0 .. MaxPad}

InitRules ==
    /\ \E word \in RuleWords : g_args = [kind |-> "rules", word |-> word]
    /\ g_pos = [started |-> FALSE, k |-> 0]
    /\ g_n = 0
    /\ g_last = <<>>
    /\ g_seen = {}
    /\ g_out = <<>>
    /\ g_done = FALSE
    /\ EngineIdle /\ MainIdle /\ DevIdle /\ FleetIdle

\* apply_rules, lines 102-138: the next variant is passed to emit and yielded
\* when emit returns it and it is not the empty string ("if p := emit(w)").
rules_next ==
    /\ g_args.kind = "rules"
    /\ ~g_done
    /\ LET vs == variants(g_args.word)
           k == g_pos.k + 1
       IN IF k > Len(vs)
          THEN /\ g_done' = TRUE
               /\ g_pos' = [g_pos EXCEPT !.started = TRUE]
               /\ UNCHANGED <<g_n, g_last, g_seen, g_out>>
          ELSE /\ g_pos' = [started |-> TRUE, k |-> k]
               /\ IF emit(vs[k])
                  THEN /\ g_seen' = g_seen \cup {vs[k]}
                       /\ IF vs[k] # <<>>
                          THEN /\ g_n' = g_n + 1
                               /\ g_last' = vs[k]
                               /\ g_out' = Append(g_out, vs[k])
                          ELSE UNCHANGED <<g_n, g_last, g_out>>
                  ELSE UNCHANGED <<g_n, g_last, g_seen, g_out>>
               /\ UNCHANGED g_done
    /\ UNCHANGED <<g_args, engine_vars, main_vars, dev_vars, fleet_vars>>

NextRules == rules_next

SpecRules == InitRules /\ [][NextRules]_vars

\* ---------------------------------------------------------------- C16
\* C16: rule mutation bound and deduplication.  The sequence apply_rules has
\* yielded contains no string twice and no string longer than 16 characters;
\* and a skipped variant does not stop the rest: once apply_rules has
\* returned, every variant that fits has been yielded.
C16_RulesBoundDedup ==
    g_args.kind = "rules" =>
        /\ \A i, j \in 1 .. Len(g_out) : g_out[i] = g_out[j] => i = j
        /\ \A i \in 1 .. Len(g_out) : Len(g_out[i]) <= PasswordLimit
        /\ g_done =>
             LET vs == variants(g_args.word)
             IN \A k \in 1 .. Len(vs) :
                   (vs[k] # <<>> /\ Len(vs[k]) <= PasswordLimit) =>
                       vs[k] \in Range(g_out)

\* A 12-character word: its variants with five-character and four-character
\* suffixes were skipped as too long, its lower-case form as a duplicate,
\* and the later short suffixes were still yielded.
C16_Witness ==
    /\ g_args.kind = "rules"
    /\ g_args.word = <<"1", "2">> \o Word(10)
    /\ g_done
    /\ Len(g_out) < Len(variants(g_args.word))
    /\ (g_args.word \o <<"7", "7", "7">>) \in Range(g_out)
    /\ (g_args.word \o <<"1", "2", "3", "4", "5">>) \notin Range(g_out)

\* ---------------------------------------------------------------- C17
\* C17 as stated: apply_rules("Pass") yields "pass", "PASS", "Pass", "ssaP"
\* and "pass123".
C17_PassVariants ==
    (g_args.kind = "rules" /\ g_args.word = Pass /\ g_done) =>
        {<<"p", "a", "s", "s">>, <<"P", "A", "S", "S">>, Pass,
         <<"s", "s", "a", "P">>,
         <<"p", "a", "s", "s", "1", "2", "3">>} \subseteq Range(g_out)

\* C17 amended: apply_rules("Pass") yields "pass", "PASS", "Pass", the
\* case-swapped form "pASS" and "pass123"; the reversed string "ssaP" is not
\* among its outputs.
C17_PassVariantsSwapped ==
    (g_args.kind = "rules" /\ g_args.word = Pass /\ g_done) =>
        /\ {<<"p", "a", "s", "s">>, <<"P", "A", "S", "S">>, Pass,
            <<"p", "A", "S", "S">>,
            <<"p", "a", "s", "s", "1", "2", "3">>} \subseteq Range(g_out)
        /\ <<"s", "s", "a", "P">> \notin Range(g_out)

\* apply_rules("Pass") has returned and has yielded the case-swapped form.
C17_Witness ==
    /\ g_args.kind = "rules"
    /\ g_args.word = Pass
    /\ g_done
    /\ <<"p", "A", "S", "S">> \in Range(g_out)

\* ============================================================== main
\* password.py's main from the loading of the target to the exit status.
HexDigits == {"0", "1", "2", "3", "4", "5", "6", "7", "8", "9",
              "a", "b", "c", "d", "e", "f"}

\* The auth strings tried, as typed after --target or as the device returns
\* them: seven hex digits followed by nothing, one more character or two, an
\* upper-case hex string, and the empty string.
TargetStem == <<"0", "1", "2", "3", "a", "b", "c">>
TargetTexts ==
    {TargetStem \o tl : tl \in {<<>>, <<"d">>, <<"F">>, <<"g">>, <<"G">>,
                                 <<" ">>, <<"d", "e">>}}
      \cup {<<"A", "B", "C", "D", "E", "F", "1", "2">>, <<>>}
Modes == {"wordlist", "rules", "hybrid", "mask", "bruteforce"}

InitMain ==
    /\ \E source \in {"device", "target"}, text \in TargetTexts,
          mode \in Modes, exists \in BOOLEAN, fetched \in BOOLEAN :
         /\ source = "target" => fetched
         /\ source = "device" => text # <<>>
         /\ m_args = [source |-> source, target |-> text, mode |-> mode,
                      wordlist_exists |-> exists, fetched |-> fetched]
    /\ m_target = <<>>
    /\ m_log = <<>>
    /\ m_result = None
    /\ m_pc = "load"
    /\ m_exit = -1
    /\ EngineIdle /\ GenIdle /\ DevIdle /\ FleetIdle

\* Line 557: the test of the loaded target.
valid_auth(t) == Len(t) = 8 /\ \A j \in 1 .. Len(t) : t[j] \in HexDigits

\* Faulty variant: the target is used as loaded, without the test.
main_load_unchecked ==
    /\ m_pc = "load"
    /\ m_target' = IF m_args.source = "device" THEN m_args.target
                   ELSE lower(m_args.target)
    /\ m_pc' = "dispatch"
    /\ UNCHANGED <<m_args, m_log, m_result, m_exit, engine_vars, gen_vars,
                   dev_vars, fleet_vars>>

\* Lines 538-559: an empty --target is "not given" (parser.error, status 2);
\* the target is fetched from the device or lower-cased from --target, then
\* tested.
main_load ==
    /\ m_pc = "load"
    /\ IF m_args.source = "target" /\ m_args.target = <<>>
       THEN /\ m_log' = Append(m_log, "error: Specify --device or --target")
            /\ m_exit' = 2
            /\ m_pc' = "exited"
            /\ UNCHANGED m_target
       ELSE IF m_args.source = "device" /\ ~m_args.fetched
       THEN /\ m_log' = Append(m_log, "[-] Error")
            /\ m_exit' = 1
            /\ m_pc' = "exited"
            /\ UNCHANGED m_target
       ELSE LET t == IF m_args.source = "device" THEN m_args.target
                     ELSE lower(m_args.target)
            IN /\ m_target' = t
               /\ IF ~valid_auth(t)
                  THEN /\ m_log' = Append(m_log, "[-] Invalid auth format")
                       /\ m_exit' = 1
                       /\ m_pc' = "exited"
                  ELSE /\ m_pc' = "dispatch"
                       /\ UNCHANGED <<m_log, m_exit>>
    /\ UNCHANGED <<m_args, m_result, engine_vars, gen_vars, dev_vars, fleet_vars>>

\* Faulty variant: the wordlist is opened without the test of line 565.
main_dispatch_unchecked ==
    /\ m_pc = "dispatch"
    /\ m_log' = Append(m_log, "crack")
    /\ m_result' \in {None, "", "a"}
    /\ m_pc' = "report"
    /\ UNCHANGED <<m_args, m_target, m_exit, engine_vars, gen_vars, dev_vars, fleet_vars>>

\* Lines 563-590: the wordlist file is tested, then crack_wordlist,
\* crack_hybrid, crack_mask or crack_bruteforce runs the engine (the pool is
\* created, candidates pulled, batches submitted) and returns.
main_dispatch ==
    /\ m_pc = "dispatch"
    /\ IF m_args.mode \in {"wordlist", "rules", "hybrid"}
          /\ ~m_args.wordlist_exists
       THEN /\ m_log' = Append(m_log, "[-] File not found")
            /\ m_exit' = 1
            /\ m_pc' = "exited"
            /\ UNCHANGED m_result
       ELSE /\ m_log' = Append(m_log, "crack")
            /\ m_result' \in {None, "", "a"}
            /\ m_pc' = "report"
            /\ UNCHANGED m_exit
    /\ UNCHANGED <<m_args, m_target, engine_vars, gen_vars, dev_vars, fleet_vars>>

\* Lines 592-601.
main_report ==
    /\ m_pc = "report"
    /\ m_exit' = IF Truthy(m_result) THEN 0 ELSE 1
    /\ m_pc' = "exited"
    /\ UNCHANGED <<m_args, m_target, m_log, m_result, engine_vars, gen_vars,
                   dev_vars, fleet_vars>>

NextMain == main_load \/ main_dispatch \/ main_report

SpecMain == InitMain /\ [][NextMain]_vars

\* ---------------------------------------------------------------- C18
\* The target as main loads it: a --target value lower-cased (line 554), a
\* fetched one as the device returned it.
LoadedTarget ==
    IF m_args.source = "device" THEN m_args.target ELSE lower(m_args.target)

ErrorReported ==
    \E j \in 1 .. Len(m_log) :
        m_log[j] \in {"error: Specify --device or --target",
                      "[-] Invalid auth format", "[-] File not found"}

UpperCaseTargetSearched ==
    /\ m_args.mode # "none"
    /\ m_args.source = "target"
    /\ ~valid_auth(m_args.target)
    /\ "crack" \in Range(m_log)

FanMin == 15
FanMax == 100
VoltageMin == 2150
VoltageMax == 2600

\* int(text) of Python for a sign followed by decimal digits, and str(n).
IsDigit(c) == \E i \in 1 .. Len(CHARSET_DIGITS) : CHARSET_DIGITS[i] = c
DigitValue(c) == (CHOOSE i \in 1 .. Len(CHARSET_DIGITS) : CHARSET_DIGITS[i] = c) - 1

RECURSIVE digits_value(_)
digits_value(ds) ==
    IF ds = <<>> THEN 0
    ELSE 10 * digits_value(SubSeq(ds, 1, Len(ds) - 1)) + DigitValue(ds[Len(ds)])

unsigned(text) ==
    IF text # <<>> /\ text[1] \in {"-", "+"} THEN Tail(text) ELSE text

\* int(text) raises ValueError unless this holds.
is_int(text) ==
    /\ unsigned(text) # <<>>
    /\ \A j \in 1 .. Len(unsigned(text)) : IsDigit(unsigned(text)[j])

int(text) ==
    IF text[1] = "-" THEN 0 - digits_value(unsigned(text))
    ELSE digits_value(unsigned(text))

RECURSIVE digits(_)
digits(n) ==
    IF n < 10 THEN <<CHARSET_DIGITS[n + 1]>>
    ELSE digits(n \div 10) \o <<CHARSET_DIGITS[(n % 10) + 1]>>

str(n) == IF n < 0 THEN <<"-">> \o digits(0 - n) ELSE digits(n)

\* str.strip() of blanks.
RECURSIVE strip(_)
strip(w) ==
    IF w # <<>> /\ w[1] = " " THEN strip(Tail(w))
    ELSE IF w # <<>> /\ w[Len(w)] = " " THEN strip(SubSeq(w, 1, Len(w) - 1))
    ELSE w

\* The arguments tried.
Auto == <<"a", "u", "t", "o">>
SpeedTexts ==
    {Auto, <<"f", "a", "s", "t">>, <<"0", "5", "0">>, <<"+", "2", "0">>}
      \cup {str(n) : n \in (0 - 2) .. (FanMax + 1)}
Millivolts == (VoltageMin - 1) .. (VoltageMax + 1)
SoloOn == {<<"1">>, <<"o", "n">>, <<"t", "r", "u", "e">>, <<"y", "e", "s">>}
SoloOff == {<<"0">>, <<"o", "f", "f">>, <<"f", "a", "l", "s", "e">>, <<"n", "o">>}
SoloTexts ==
    SoloOn \cup SoloOff
      \cup {<<"m", "a", "y", "b", "e">>, <<"2">>, <<>>, <<"O", "n">>,
            <<" ", "n", "o", " ">>}

\* What the miner answers to a command: success, an error status, nothing.
Responses == {"S", "E", None}

InitDevice ==
    /\ \/ \E speed \in SpeedTexts : d_args = [cmd |-> "fan", speed |-> speed]
       \/ \E mv \in Millivolts : d_args = [cmd |-> "voltage", mv |-> mv]
       \/ \E enabled \in SoloTexts : d_args = [cmd |-> "solo", enabled |-> enabled]
    /\ d_sent = <<>>
    /\ d_err = <<>>
    /\ d_pc = "call"
    /\ EngineIdle /\ GenIdle /\ MainIdle /\ FleetIdle

\* check_result(m.ascset(param), msg), lines 443-455 and 274-275: the command
\* is sent once and an error is printed unless the miner reports success.
send(param) ==
    /\ d_sent' = Append(d_sent, param)
    /\ \E response \in Responses :
         d_err' = IF response = "S" THEN d_err
                  ELSE IF response = None THEN Append(d_err, "no response")
                  ELSE Append(d_err, "failed")
    /\ d_pc' = "returned"

\* print_err(msg); return
reject(msg) ==
    /\ d_err' = Append(d_err, msg)
    /\ d_pc' = "returned"
    /\ UNCHANGED d_sent

\* Lines 543-549.
do_fan ==
    /\ d_pc = "call"
    /\ d_args.cmd = "fan"
    /\ IF d_args.speed # Auto /\ ~is_int(d_args.speed)
       THEN /\ d_pc' = "ValueError"
            /\ UNCHANGED <<d_sent, d_err>>
       ELSE LET speed == IF d_args.speed = Auto THEN 0 - 1
                         ELSE int(d_args.speed)
            IN IF speed # 0 - 1 /\ ~(FanMin <= speed /\ speed <= FanMax)
               THEN reject("fan speed must be 15-100 or 'auto'")
               ELSE send(<<"0,fan-spd,">> \o str(speed))
    /\ UNCHANGED <<d_args, engine_vars, gen_vars, main_vars, fleet_vars>>

\* Lines 573-577.
do_voltage ==
    /\ d_pc = "call"
    /\ d_args.cmd = "voltage"
    /\ IF ~(VoltageMin <= d_args.mv /\ d_args.mv <= VoltageMax)
       THEN reject("voltage must be in range 2150-2600 mV")
       ELSE send(<<"0,voltage,">> \o str(d_args.mv))
    /\ UNCHANGED <<d_args, engine_vars, gen_vars, main_vars, fleet_vars>>

\* Lines 580-589.
do_solo_allowed ==
    /\ d_pc = "call"
    /\ d_args.cmd = "solo"
    /\ LET value_text == lower(strip(d_args.enabled))
       IN IF value_text \in SoloOn THEN send(<<"0,solo-allowed,">> \o str(1))
          ELSE IF value_text \in SoloOff
          THEN send(<<"0,solo-allowed,">> \o str(0))
          ELSE reject("solo must be 0/1 (or off/on)")
    /\ UNCHANGED <<d_args, engine_vars, gen_vars, main_vars, fleet_vars>>

NextDevice == do_fan \/ do_voltage \/ do_solo_allowed

SpecDevice == InitDevice /\ [][NextDevice]_vars

\* ---------------------------------------------------------------- C19
Rejected(msg) == d_sent = <<>> /\ d_err = <<msg>>
SentOnce(param) == d_sent = <<param>>

\* C19: device-control commands validate before sending.  When the command
\* has returned: a fan speed other than 'auto' and outside 15..100, a voltage
\* outside 2150..2600 and a solo value outside {0,1,on,off,true,false,yes,no}
\* (read as the code reads it, stripped and lower-cased) have printed an
\* error and sent nothing; a valid argument has sent exactly one ascset with
\* the formatted parameter.
C19_ValidateBeforeSend ==
    d_pc = "returned" =>
        /\ (d_args.cmd = "fan" /\ d_args.speed = Auto) =>
              SentOnce(<<"0,fan-spd,", "-", "1">>)
        /\ (d_args.cmd = "fan" /\ d_args.speed # Auto) =>
              IF int(d_args.speed) \in FanMin .. FanMax
              THEN SentOnce(<<"0,fan-spd,">> \o str(int(d_args.speed)))
              ELSE Rejected("fan speed must be 15-100 or 'auto'")
        /\ d_args.cmd = "voltage" =>
              IF d_args.mv \in VoltageMin .. VoltageMax
              THEN SentOnce(<<"0,voltage,">> \o str(d_args.mv))
              ELSE Rejected("voltage must be in range 2150-2600 mV")
        /\ d_args.cmd = "solo" =>
              IF lower(strip(d_args.enabled)) \in SoloOn
              THEN SentOnce(<<"0,solo-allowed,", "1">>)
              ELSE IF lower(strip(d_args.enabled)) \in SoloOff
              THEN SentOnce(<<"0,solo-allowed,", "0">>)
              ELSE Rejected("solo must be 0/1 (or off/on)")

\* The same with the speed text "-1" left out: everything else is as stated.
ValidateBeforeSendButMinusOne ==
    (d_args.cmd = "fan" => d_args.speed # <<"-", "1">>) => C19_ValidateBeforeSend

\* ======================================================================
\* The engine again: interrupts, tie-break, batches, blocking.
\* ======================================================================
\* ---------------------------------------------------------------- C21
\* C21 (as stated): a user interrupt delivered at any point between the
\* creation and the teardown of the pool is handled by the engine: the step
\* that delivers it leads to the handler's return, never out of
\* crack_generator as an unhandled KeyboardInterrupt.
C21_InterruptHandled ==
    [][(interrupt \/ interrupt_escapes) =>
          (pc' = "return_none" /\ outcome' # "Unhandled")]_vars

\* Inside the try block every interrupt is handled.
InterruptHandledInTry ==
    [][(pc \in TryBlock /\ (interrupt \/ interrupt_escapes)) =>
          pc' = "return_none"]_vars

\* ---------------------------------------------------------------- C22
\* The batches that have completed with a match and whose result the
\* dispatcher has not read yet.
CompletedHits ==
    {f \in Remaining : Done(f) /\ Truthy(pool[f].result)}

\* C22 (as stated): whenever the dispatcher recognizes a match, in the poll
\* or in the final drain, the password it takes is the result of the
\* lowest-indexed batch among those that have completed with a match.
C22_LowestIndexedWins ==
    [][(found = None /\ found' # None) =>
          found' = pool[Min(CompletedHits)].result]_vars

\* The poll alone takes the earliest submitted of the completed matches.
PollTakesLowest ==
    [][(pc = "poll" /\ found = None /\ found' # None) =>
          found' = pool[Min(CompletedHits)].result]_vars

\* ---------------------------------------------------------------- C23
\* The submitted batches cut the generator's output into consecutive pieces
\* of batch_size candidates, the last piece of 1 to batch_size.
Partition ==
    /\ Concat(pool) = generator
    /\ \A i \in 1 .. Len(pool) :
         /\ i < Len(pool) => Len(pool[i].passwords) = batch_size
         /\ Len(pool[i].passwords) \in 1 .. batch_size

\* C23: batches partition the candidate stream.  A run that ends without
\* match or interrupt has submitted batches whose concatenation in submission
\* order is the generator's output, all of batch_size candidates except
\* possibly the last, which holds 1 to batch_size; and the contents of a
\* submitted batch never change, whatever the dispatcher does to its buffer.
C23_BatchesPartition ==
    [][ProcessEnds \/
       /\ outcome' = "Exhausted" => Partition'
       /\ Len(pool') >= Len(pool)
       /\ \A i \in 1 .. Len(pool) :
            pool'[i].passwords = pool[i].passwords]_vars

\* An exhausted run of a full batch and a partial one: the buffer was cleared
\* and refilled after the first submit.
C23_Witness ==
    /\ outcome = "Exhausted"
    /\ Len(generator) = MaxCands
    /\ batch_size = 2
    /\ Len(pool) = 2
    /\ Len(pool[2].passwords) = 1

C29_EmptyMatchReported ==
    (Matching = {""} /\ ~Interrupted /\ pc = "returned") =>
        (outcome = "Found" /\ result = "")

\* A worker does return the empty string for such a batch.
EmptyMatchComputed ==
    /\ Matching = {""}
    /\ \E i \in 1 .. Len(pool) : pool[i].state = "done" /\ pool[i].result = ""

\* ---------------------------------------------------------------- C27
\* What the run has printed.
Texts == {printed[i].text : i \in 1 .. Len(printed)}
ReportsCount ==
    \E i \in 1 .. Len(printed) : printed[i].count = checked
ReportsTime == \E t \in Texts : t \in {"[+] Time", "[-] Time"}
CredentialsPrinted == "CREDENTIALS" \in Texts

\* C27 (as stated): a run that ends exhausted or cancelled has reported the
\* number of candidates counted and the elapsed time, and print_credentials
\* is not invoked for it; print_credentials is invoked exactly when the
\* search returned a password.
C27_ReportWithoutCredentials ==
    [][ProcessEnds =>
         /\ outcome \in {"Exhausted", "Cancelled"} =>
               (ReportsCount /\ ReportsTime /\ ~CredentialsPrinted')
         /\ CredentialsPrinted' <=> result # None]_vars

\* An exhausted run reports count and time; credentials are printed exactly
\* for a returned password.
ExhaustedReportWithoutCredentials ==
    [][ProcessEnds =>
         /\ outcome = "Exhausted" =>
               (ReportsCount /\ ReportsTime /\ ~CredentialsPrinted')
         /\ outcome = "Cancelled" => ~CredentialsPrinted'
         /\ CredentialsPrinted' <=> result # None]_vars

\* ---------------------------------------------------------------- C25
\* The substitution table as the claim gives it, and with "5" for "s".
LeetDollar ==
    <<<<"a", "4">>, <<"e", "3">>, <<"i", "1">>, <<"o", "0">>, <<"s", "$">>,
      <<"t", "7">>, <<"l", "1">>>>
LeetFive ==
    <<<<"a", "4">>, <<"e", "3">>, <<"i", "1">>, <<"o", "0">>, <<"s", "5">>,
      <<"t", "7">>, <<"l", "1">>>>

\* For each letter of the table that occurs in w, in table order, w with
\* every occurrence of that letter replaced.
Occurs(c, w) == \E j \in 1 .. Len(w) : w[j] = c
Singles(table, w) ==
    LET occ == SelectSeq(table, LAMBDA e : Occurs(e[1], w))
    IN [i \in 1 .. Len(occ) |->
          [j \in 1 .. Len(w) |-> IF w[j] = occ[i][1] THEN occ[i][2] ELSE w[j]]]

\* apply_rules has returned, and what it yielded holds, right after the
\* original and the case variants, the single substitutions of the table in
\* order, followed by the fully substituted form unless that form was
\* yielded already.  The empty string and strings longer than 16 characters
\* are never yielded.
LeetAfterCases(table) ==
    (g_args.kind = "rules" /\ g_done) =>
        LET word == g_args.word
            fits == Len(word) <= PasswordLimit
            cases == {word, lower(word), upper(word), capitalize(word),
                      swapcase(word)} \ {<<>>}
            c == IF fits THEN Cardinality(cases) ELSE 0
            S == IF fits THEN Singles(table, lower(word)) ELSE <<>>
            full == full_leet(lower(word), 1)
        IN /\ Len(g_out) >= c + Len(S)
           /\ \A i \in 1 .. c : g_out[i] \in cases
           /\ \A i \in 1 .. Len(S) : g_out[c + i] = S[i]
           /\ (fits /\ full # <<>> /\ full \notin cases /\ full \notin Range(S)) =>
                 (Len(g_out) > c + Len(S) /\ g_out[c + Len(S) + 1] = full)

\* C25 as stated: for each letter of the table a->4, e->3, i->1, o->0, s->$,
\* t->7, l->1 that occurs in the lowercase word, apply_rules yields one
\* variant with every occurrence of the letter replaced, after the case
\* variants and before the fully substituted form.
C25_LeetSingles == LeetAfterCases(LeetDollar)

\* C25 amended: the same with s->5 (the table's first substitute), for the
\* variants of at most 16 characters.
C25_LeetSinglesFive == LeetAfterCases(LeetFive)

\* apply_rules("Pass") has returned and has yielded "p4ss" and "pa55" before
\* the fully substituted "p455".
C25_Witness ==
    /\ g_args.kind = "rules"
    /\ g_args.word = Pass
    /\ g_done
    /\ Len(g_out) >= 7
    /\ g_out[5] = <<"p", "4", "s", "s">>
    /\ g_out[6] = <<"p", "a", "5", "5">>
    /\ g_out[7] = <<"p", "4", "5", "5">>

\* ============================================================== the oracle
\* main's loading of the target followed by one call of check_password_batch
\* on a batch, with the target as main hands it to the search.
HexAuths ==
    {lower(<<"A", "B", "C", "D", "E", "F", "1", "2">>),
     lower(TargetStem \o <<"F">>),
     <<"0", "0", "0", "0", "0", "0", "0", "0">>}

\* compute_auth_fast returns hexdigest()[:8]: eight lower-case hex digits.
InitOracle ==
    /\ \E source \in {"device", "target"}, text \in TargetTexts :
         /\ source = "device" => text # <<>>
         /\ m_args = [source |-> source, target |-> text,
                      mode |-> "bruteforce", wordlist_exists |-> TRUE,
                      fetched |-> TRUE]
    /\ m_target = <<>>
    /\ m_log = <<>>
    /\ m_result = None
    /\ m_pc = "load"
    /\ m_exit = -1
    /\ digest \in [Passwords -> HexAuths]
    /\ batch \in SeqsUpTo(Passwords, MaxCands)
    /\ EngineStopped /\ GenIdle /\ DevIdle /\ FleetIdle

\* Line 312 and lines 87-93: the batch is checked against main's target.
check_batch ==
    /\ m_pc = "dispatch"
    /\ m_log' = Append(m_log, "crack")
    /\ m_result' = check_password_batch(batch, m_target)
    /\ m_pc' = "report"
    /\ UNCHANGED <<m_args, m_target, m_exit, engine_vars, gen_vars, dev_vars, fleet_vars>>

NextOracle == main_load \/ check_batch \/ main_report

SpecOracle == InitOracle /\ [][NextOracle]_vars

\* ---------------------------------------------------------------- C26
\* The first candidate of the batch whose oracle value equals the text when
\* case is disregarded.
RECURSIVE FirstMatchIgnoringCase(_, _)
FirstMatchIgnoringCase(passwords, text) ==
    IF passwords = <<>> THEN None
    ELSE IF lower(compute_auth_fast(Head(passwords))) = lower(text)
    THEN Head(passwords)
    ELSE FirstMatchIgnoringCase(Tail(passwords), text)

\* C26 (as stated): the oracle match is case-insensitive in the target.  For
\* every target, upper-case hex digits included, a candidate of the batch is
\* reported as the match exactly when its oracle value equals the target
\* compared without regard to case.
C26_CaseInsensitiveMatch ==
    m_pc \in {"report", "exited"} =>
        m_result = FirstMatchIgnoringCase(batch, m_args.target)

\* For a target given with --target the match disregards case.
TypedTargetIgnoresCase ==
    (m_args.source = "target" /\ m_pc \in {"report", "exited"}) =>
        m_result = FirstMatchIgnoringCase(batch, m_args.target)

\* An upper-case --target has matched a candidate.
TypedUpperCaseMatched ==
    /\ m_args.source = "target"
    /\ m_args.target = <<"A", "B", "C", "D", "E", "F", "1", "2">>
    /\ m_pc = "report"
    /\ m_result = "a"

\* ============================================================== the fleet
\* thermal.py's main running a command other than status against several
\* hosts: one run_command_on_host per host on a ThreadPoolExecutor.
\* redirect_stdout and redirect_stderr assign the process-wide sys.stdout
\* and sys.stderr on entry and assign the saved value back on exit.
MaxHosts == 2
MaxParallel == 2

HostCounts == 2 .. MaxHosts
Hosts == 1 .. f_args.hosts

\* What cmds[args.cmd](m, args) does on a host: print to stdout, print_err,
\* both, or raise.
Behaviours == {"out", "err", "both", "raise"}

\* The StringIO objects out and err of a host's run_command_on_host.
Out(h) == [kind |-> "buf", fd |-> "out", host |-> h]
Err(h) == [kind |-> "buf", fd |-> "err", host |-> h]
NoStream == [kind |-> "none", fd |-> "none", host |-> 0]
Streams(n) == {SysOut, SysErr} \cup {Out(h) : h \in 1 .. n}
                \cup {Err(h) : h \in 1 .. n}

\* One write: the host whose text it is, the text, and for a block the
\* captured writes it holds.
written(h, text) == [host |-> h, text |-> text, content |-> <<>>]

\* f"[{host}]\n{result}{errors}"
block(h, content) == [host |-> h, text |-> "block", content |-> content]

InitFleet ==
    /\ \E n \in HostCounts, j \in 1 .. MaxParallel,
          does \in [1 .. MaxHosts -> Behaviours] :
         /\ \A h \in n + 1 .. MaxHosts : does[h] = "out"
         /\ f_args = [hosts |-> n, parallel |-> j, does |-> does]
         /\ f_thread = [h \in 1 .. n |->
                          [pc |-> "queued", old_out |-> NoStream,
                           old_err |-> NoStream, returned |-> <<>>]]
         /\ f_streams = [s \in Streams(n) |-> <<>>]
         /\ f_results = [h \in 1 .. n |-> <<>>]
    /\ sys_stdout = SysOut
    /\ sys_stderr = SysErr
    /\ f_main = [pc |-> "collect", k |-> 0]
    /\ EngineIdle /\ GenIdle /\ MainIdle /\ DevIdle

Busy == {h \in Hosts : f_thread[h].pc \notin {"queued", "done"}}
Waiting == {h \in Hosts : f_thread[h].pc = "queued"}

\* A worker thread of the pool takes the oldest submitted call; at most
\* args.parallel run at a time.  Lines 903-905: Miner, out, err.
thread_start(h) ==
    /\ f_main.pc = "collect"
    /\ Waiting # {} /\ h = Min(Waiting)
    /\ Cardinality(Busy) < f_args.parallel
    /\ f_thread' = [f_thread EXCEPT ![h].pc = "enter_out"]
    /\ UNCHANGED <<f_args, sys_stdout, sys_stderr, f_streams, f_results,
                   f_main, engine_vars, gen_vars, main_vars, dev_vars>>

\* Line 907, redirect_stdout(out).__enter__: the current sys.stdout is
\* saved and sys.stdout is set to out.
redirect_stdout_enter(h) ==
    /\ f_thread[h].pc = "enter_out"
    /\ f_thread' = [f_thread EXCEPT ![h].old_out = sys_stdout,
                                    ![h].pc = "enter_err"]
    /\ sys_stdout' = Out(h)
    /\ UNCHANGED <<f_args, sys_stderr, f_streams, f_results, f_main,
                   engine_vars, gen_vars, main_vars, dev_vars>>

\* Line 907, redirect_stderr(err).__enter__.
redirect_stderr_enter(h) ==
    /\ f_thread[h].pc = "enter_err"
    /\ f_thread' = [f_thread EXCEPT ![h].old_err = sys_stderr,
                                    ![h].pc = "command"]
    /\ sys_stderr' = Err(h)
    /\ UNCHANGED <<f_args, sys_stdout, f_streams, f_results, f_main,
                   engine_vars, gen_vars, main_vars, dev_vars>>

\* Line 908, the command printing: print writes to what sys.stdout names at
\* the time of the call.
command_print(h) ==
    /\ f_thread[h].pc = "command"
    /\ f_args.does[h] \in {"out", "both"}
    /\ f_streams' = [f_streams EXCEPT
                        ![sys_stdout] = Append(@, written(h, "out"))]
    /\ f_thread' = [f_thread EXCEPT
                       ![h].pc = IF f_args.does[h] = "both"
                                 THEN "command_err" ELSE "exit_err"]
    /\ UNCHANGED <<f_args, sys_stdout, sys_stderr, f_results, f_main,
                   engine_vars, gen_vars, main_vars, dev_vars>>

\* Line 908, the command calling print_err (line 440): print to what
\* sys.stderr names at the time of the call.
command_print_err(h) ==
    /\ \/ f_thread[h].pc = "command" /\ f_args.does[h] = "err"
       \/ f_thread[h].pc = "command_err"
    /\ f_streams' = [f_streams EXCEPT
                        ![sys_stderr] = Append(@, written(h, "err"))]
    /\ f_thread' = [f_thread EXCEPT ![h].pc = "exit_err"]
    /\ UNCHANGED <<f_args, sys_stdout, sys_stderr, f_results, f_main,
                   engine_vars, gen_vars, main_vars, dev_vars>>

\* Line 908, the command raising an exception: the with statement is left
\* through the two __exit__ calls.
command_raise(h) ==
    /\ f_thread[h].pc = "command"
    /\ f_args.does[h] = "raise"
    /\ f_thread' = [f_thread EXCEPT ![h].pc = "exit_err"]
    /\ UNCHANGED <<f_args, sys_stdout, sys_stderr, f_streams, f_results,
                   f_main, engine_vars, gen_vars, main_vars, dev_vars>>

\* redirect_stderr(err).__exit__: sys.stderr is set to the saved stream.
redirect_stderr_exit(h) ==
    /\ f_thread[h].pc = "exit_err"
    /\ sys_stderr' = f_thread[h].old_err
    /\ f_thread' = [f_thread EXCEPT ![h].pc = "exit_out"]
    /\ UNCHANGED <<f_args, sys_stdout, f_streams, f_results, f_main,
                   engine_vars, gen_vars, main_vars, dev_vars>>

\* redirect_stdout(out).__exit__: sys.stdout is set to the saved stream.
redirect_stdout_exit(h) ==
    /\ f_thread[h].pc = "exit_out"
    /\ sys_stdout' = f_thread[h].old_out
    /\ f_thread' = [f_thread EXCEPT ![h].pc = "return"]
    /\ UNCHANGED <<f_args, sys_stderr, f_streams, f_results, f_main,
                   engine_vars, gen_vars, main_vars, dev_vars>>

\* Lines 909-915: the block returned, "error: e" for an exception, else
\* out.getvalue() followed by err.getvalue().
run_command_return(h) ==
    /\ f_thread[h].pc = "return"
    /\ f_thread' = [f_thread EXCEPT
          ![h].pc = "done",
          ![h].returned =
              <<block(h, IF f_args.does[h] = "raise"
                         THEN <<written(h, "error")>>
                         ELSE f_streams[Out(h)] \o f_streams[Err(h)])>>]
    /\ UNCHANGED <<f_args, sys_stdout, sys_stderr, f_streams, f_results,
                   f_main, engine_vars, gen_vars, main_vars, dev_vars>>

\* Lines 941-944: as_completed hands over a finished future, its result is
\* stored under its host.
collect(h) ==
    /\ f_main.pc = "collect"
    /\ f_thread[h].pc = "done"
    /\ f_results[h] = <<>>
    /\ f_results' = [f_results EXCEPT ![h] = f_thread[h].returned]
    /\ UNCHANGED <<f_args, f_thread, sys_stdout, sys_stderr, f_streams,
                   f_main, engine_vars, gen_vars, main_vars, dev_vars>>

\* The end of the with block of line 939, every future collected.
pool_exit ==
    /\ f_main.pc = "collect"
    /\ \A h \in Hosts : f_results[h] # <<>>
    /\ f_main' = [pc |-> "print", k |-> 0]
    /\ UNCHANGED <<f_args, f_thread, sys_stdout, sys_stderr, f_streams,
                   f_results, engine_vars, gen_vars, main_vars, dev_vars>>

\* Lines 949-950: print(results.get(host, ...)) for the next host, to what
\* sys.stdout names.
print_block ==
    /\ f_main.pc = "print"
    /\ LET h == f_main.k + 1
       IN /\ f_streams' = [f_streams EXCEPT
                              ![sys_stdout] = @ \o f_results[h]]
          /\ f_main' = [pc |-> IF h = f_args.hosts THEN "done" ELSE "print",
                        k |-> h]
    /\ UNCHANGED <<f_args, f_thread, sys_stdout, sys_stderr, f_results,
                   engine_vars, gen_vars, main_vars, dev_vars>>

NextFleet ==
    \/ \E h \in Hosts :
          \/ thread_start(h)
          \/ redirect_stdout_enter(h)
          \/ redirect_stderr_enter(h)
          \/ command_print(h)
          \/ command_print_err(h)
          \/ command_raise(h)
          \/ redirect_stderr_exit(h)
          \/ redirect_stdout_exit(h)
          \/ run_command_return(h)
          \/ collect(h)
    \/ pool_exit
    \/ print_block

SpecFleet == InitFleet /\ [][NextFleet]_vars

\* ---------------------------------------------------------------- C28
\* The text the command produces on a host.
TextOf(h) ==
    IF f_args.does[h] = "out" THEN <<written(h, "out")>>
    ELSE IF f_args.does[h] = "err" THEN <<written(h, "err")>>
    ELSE IF f_args.does[h] = "both"
    THEN <<written(h, "out"), written(h, "err")>>
    ELSE <<written(h, "error")>>

\* C28 (as stated): fleet output isolation and order.  For every
\* interleaving of the host threads, each host's block holds exactly the
\* text the command wrote for that host, the blocks are printed to the
\* process's stdout in host order, and once every thread has finished
\* sys.stdout is the original stream again.
C28_FleetIsolation ==
    /\ \A h \in Hosts :
          f_thread[h].pc = "done" =>
              f_thread[h].returned = <<block(h, TextOf(h))>>
    /\ (f_main.pc \in {"print", "done"}) => sys_stdout = SysOut
    /\ f_main.pc = "done" =>
          f_streams[SysOut] = [h \in Hosts |-> block(h, TextOf(h))]

\* With one worker thread (--parallel 1) the hosts run one after the other
\* and the statement holds.
SequentialFleetIsolation ==
    f_args.parallel = 1 => C28_FleetIsolation

\* A sequential fleet run has printed its blocks.
SequentialFleetPrinted ==
    /\ f_args.hosts >= 2 /\ f_args.parallel = 1
    /\ f_main.pc = "done"
    /\ Len(f_streams[SysOut]) = f_args.hosts

\* ====================================================== the wordlist attack
\* crack_wordlist: the engine run on word_generator() with the estimate
\* line_count * 30 (with rules) or line_count.
RulesFactor == 30

\* apply_rules as a whole: the variants emit accepts, in order, the empty
\* string left out ("if p := emit(w)").
RECURSIVE apply_rules_from(_, _, _)
apply_rules_from(vs, k, seen) ==
    IF k > Len(vs) THEN <<>>
    ELSE IF vs[k] \notin seen /\ Len(vs[k]) <= PasswordLimit
    THEN (IF vs[k] # <<>> THEN <<vs[k]>> ELSE <<>>)
            \o apply_rules_from(vs, k + 1, seen \cup {vs[k]})
    ELSE apply_rules_from(vs, k + 1, seen)

apply_rules(word) == apply_rules_from(variants(word), 1, {})

\* Lines 379-388: blank lines are skipped, every other line is yielded or
\* expanded by apply_rules.
RECURSIVE word_generator(_, _)
word_generator(lines, use_rules) ==
    IF lines = <<>> THEN <<>>
    ELSE (IF Head(lines) = <<>> THEN <<>>
          ELSE IF use_rules THEN apply_rules(Head(lines))
          ELSE <<Head(lines)>>) \o word_generator(Tail(lines), use_rules)

\* The wordlist files tried, as their stripped lines: one word; one word and
\* a blank line.
WordFiles == {<<Pass>>, << <<"1", "2">>, <<>> >>}
WordlistBatchSizes == {16, 20}

\* Lines 390-397: line_count counts every line of the file.  No candidate
\* has the target's oracle value.
InitWordlist ==
    /\ \E lines \in WordFiles, use_rules \in BOOLEAN :
         /\ generator = word_generator(lines, use_rules)
         /\ total = Len(lines) * (IF use_rules THEN RulesFactor ELSE 1)
    /\ digest = [p \in Range(generator) |-> "d1"]
    /\ target = "d0"
    /\ batch_size \in WordlistBatchSizes
    /\ num_workers \in WorkerCounts
    /\ pulled = 0
    /\ batch = <<>>
    /\ pool = <<>>
    /\ futures = <<>>
    /\ found = None
    /\ checked = 0
    /\ shown = None
    /\ observed = {}
    /\ manager_thread = FALSE
    /\ pc = "for"
    /\ outcome = "none"
    /\ result = None
    /\ exit_status = -1
    /\ printed = <<>>
    /\ runs = {}
    /\ GenIdle /\ MainIdle /\ DevIdle /\ FleetIdle

SpecWordlist == InitWordlist /\ [][Next]_vars

\* ---------------------------------------------------------------- C30
\* C30 (as stated): progress stays within the estimate.  With a positive
\* total, the count shown at every progress update is a multiple of
\* batch_size, has not decreased, does not exceed the number of candidates
\* pulled and does not exceed total, so that the percentage is at most 100
\* and the remaining count of the ETA is not negative.
C30_ProgressWithinEstimate ==
    [][(pc = "poll" /\ total > 0 /\ checked' # checked) =>
          /\ checked' % batch_size = 0
          /\ checked' >= checked
          /\ checked' <= pulled'
          /\ checked' <= total
          /\ shown'.pct <= 10000
          /\ total - checked' >= 0]_vars

\* The count shown is a multiple of batch_size, grows and stays within the
\* candidates pulled.
ProgressWithinPulled ==
    [][(pc = "poll" /\ total > 0 /\ checked' # checked) =>
          /\ checked' % batch_size = 0
          /\ checked' >= checked
          /\ checked' <= pulled']_vars

\* rules_next, step by step, yields what apply_rules yields.
RulesYieldApplyRules ==
    (g_args.kind = "rules" /\ g_done) => g_out = apply_rules(g_args.word)

====
